---------------------------- MODULE Spec2Model ----------------------------
(***************************************************************************)
(* Model of Example.py (OpenCVStarterKit): the Welford accumulator Stats,  *)
(* the registry StatsSet, the ratio-test filter KNNMatcher.Match and the   *)
(* per-frame processing loop.                                              *)
(*                                                                         *)
(* Python floats are modelled as exact rationals <<n, d>> (d > 0, lowest   *)
(* terms), so rounding error is outside the model.  The OpenCV calls are   *)
(* the environment: their results are drawn from small sets.               *)
(*                                                                         *)
(* Specifications:                                                         *)
(*   Spec          the processing loop (lines 256-393)                     *)
(*   SpecProgram   the startup (lines 185-263) and then the loop           *)
(*   SpecStats     any sequence of calls on one Stats object               *)
(*   SpecStatsSet  any sequence of calls on one StatsSet object            *)
(*   SpecKnn       successive KNNMatcher.Match calls on one KNNMatcher     *)
(***************************************************************************)
EXTENDS Integers, Sequences, FiniteSets, TLC

(***************************************************************************)
(* Bounds of the model.                                                    *)
(***************************************************************************)
\* samples fed to the single Stats object of SpecStats between two Clear calls
MaxSamples == 4
\* samples held by the registry of SpecStatsSet between two Clear calls
MaxSetSamples == 3
\* queries (reference descriptors) in one knnMatch result of SpecKnn
MaxQueries == 2
\* Match calls in one behaviour of SpecKnn
MaxCalls == 2
\* iterations of the processing loop in one behaviour of Spec
MaxFrames == 3
\* keypoints of the reference image (at least 4, line 234)
RefKeypoints == 4
\* clock ticks in one second: time.time() is read in ticks
TicksPerSecond == 2

(***************************************************************************)
(* Exact rational arithmetic standing in for Python float arithmetic.      *)
(***************************************************************************)
RECURSIVE GCD(_, _)
GCD(a, b) == IF b = 0 THEN a ELSE GCD(b, a % b)

Abs(n) == IF n < 0 THEN -n ELSE n

\* the rational n/d in lowest terms with a positive denominator (d # 0)
Rat(n, d) ==
    LET s == IF d < 0 THEN -1 ELSE 1
        g == GCD(Abs(n), Abs(d))
    IN  <<(s * n) \div g, (s * d) \div g>>

IntRat(n) == <<n, 1>>
Zero == IntRat(0)

RAdd(x, y) == Rat(x[1] * y[2] + y[1] * x[2], x[2] * y[2])
RSub(x, y) == Rat(x[1] * y[2] - y[1] * x[2], x[2] * y[2])
RMul(x, y) == Rat(x[1] * y[1], x[2] * y[2])
\* x / n for an integer n # 0
RDivInt(x, n) == Rat(x[1], x[2] * n)
RLess(x, y) == x[1] * y[2] < y[1] * x[2]
RMin(x, y) == IF RLess(y, x) THEN y ELSE x
RMax(x, y) == IF RLess(x, y) THEN y ELSE x

(***************************************************************************)
(* Outcome of a call: a returned value, or a raised exception.  Values are *)
(* tuples: None is <<>>, the integer i is <<i>>, a float is its rational   *)
(* <<n, d>>.                                                               *)
(***************************************************************************)
None == <<>>
PyInt(i) == <<i>>
Returns(v) == [raised |-> "", val |-> v]
Raises(e) == [raised |-> e, val |-> None]

(***************************************************************************)
(* class Stats (lines 46-81)                                               *)
(***************************************************************************)
\* Stats.Clear / Stats.__init__: the empty accumulator
Stats_Clear == [N |-> 0, S |-> Zero, min |-> Zero, mean |-> Zero, max |-> Zero]

\* Stats.AddSample without the first-sample branch of lines 71-74
Stats_AddSample_NoFirstBranch(s, x) ==
    LET n     == s.N + 1
        delta == RSub(x, s.mean)
        mean  == RAdd(s.mean, RDivInt(delta, n))
    IN  [N    |-> n,
         S    |-> RAdd(s.S, RMul(delta, RSub(x, mean))),
         min  |-> RMin(x, s.min),
         mean |-> mean,
         max  |-> RMax(x, s.max)]

\* Stats.AddSample(x)
Stats_AddSample(s, x) ==
    LET n == s.N + 1
    IN  IF n = 1
        THEN [N |-> 1, S |-> Zero, min |-> x, mean |-> x, max |-> x]
        ELSE LET delta == RSub(x, s.mean)
                 mean  == RAdd(s.mean, RDivInt(delta, n))
             IN  [N    |-> n,
                  S    |-> RAdd(s.S, RMul(delta, RSub(x, mean))),
                  min  |-> RMin(x, s.min),
                  mean |-> mean,
                  max  |-> RMax(x, s.max)]

\* Stats.Sum()
Stats_Sum(s) == Returns(RMul(s.mean, IntRat(s.N)))

\* Stats.Variance() guarding with N > 0 instead of N > 1: S/(N-1) divides by zero
Stats_Variance_GuardOff(s) ==
    IF s.N > 0
    THEN IF s.N - 1 = 0 THEN Raises("ZeroDivisionError")
                        ELSE Returns(RDivInt(s.S, s.N - 1))
    ELSE Returns(Zero)

\* Stats.Variance()
Stats_Variance(s) ==
    IF s.N > 1 THEN Returns(RDivInt(s.S, s.N - 1)) ELSE Returns(Zero)

\* Stats.StdDev(): the name math is not bound in the module (line 8 imports
\* sys and time only), so evaluating math.sqrt raises NameError; the argument
\* self.Variance() is never evaluated, the lookup of math comes first.
Stats_StdDev(s) == Raises("NameError")

\* Stats.StdErr(): the conditional expression evaluates math.sqrt only when N > 1
Stats_StdErr(s) == IF s.N > 1 THEN Raises("NameError") ELSE Returns(Zero)


(***************************************************************************)
(* class StatsSet (lines 87-113).  key_to_idx is a function from the       *)
(* registered keys to 0-based indices; stats_vec is the list of            *)
(* accumulators, element idx of the Python list at position idx + 1.       *)
(***************************************************************************)
\* StatsSet.__init__
StatsSet_Init == [key_to_idx |-> <<>>, stats_vec |-> <<>>]

\* Python list subscript seq[i]: the 1-based position addressed, 0 for IndexError.
\* A negative i counts from the end of the list.
PyListIndex(len, i) ==
    IF 0 <= i /\ i < len THEN i + 1
    ELSE IF -len <= i /\ i < 0 THEN len + i + 1
    ELSE 0

\* StatsSet.AddName without the lookup of lines 94-95
StatsSet_AddName_NoLookup(ss, key) ==
    LET idx == Len(ss.stats_vec)
    IN  [set |-> [key_to_idx |-> (key :> idx) @@ ss.key_to_idx,
                  stats_vec  |-> Append(ss.stats_vec, Stats_Clear)],
         out |-> Returns(PyInt(idx))]

\* StatsSet.AddName(key): the registry afterwards and the returned index
StatsSet_AddName(ss, key) ==
    IF key \in DOMAIN ss.key_to_idx
    THEN [set |-> ss, out |-> Returns(PyInt(ss.key_to_idx[key]))]
    ELSE LET s   == Stats_Clear
             idx == Len(ss.stats_vec)
         IN  [set |-> [key_to_idx |-> (key :> idx) @@ ss.key_to_idx,
                       stats_vec  |-> Append(ss.stats_vec, s)],
              out |-> Returns(PyInt(idx))]

\* StatsSet.AddNamedSample(key, val) recording val in the accumulator of key
StatsSet_AddNamedSample_Recording(ss, key, val) ==
    LET r == StatsSet_AddName(ss, key)
        p == r.set.key_to_idx[key] + 1
    IN  [set |-> [r.set EXCEPT !.stats_vec[p] = Stats_AddSample(@, val)],
         out |-> r.out]

\* StatsSet.AddNamedSample(key, val): val is not used
StatsSet_AddNamedSample(ss, key, val) ==
    IF key \in DOMAIN ss.key_to_idx
    THEN [set |-> ss, out |-> Returns(PyInt(ss.key_to_idx[key]))]
    ELSE StatsSet_AddName(ss, key)

\* StatsSet.AddSample(idx, val)
StatsSet_AddSample(ss, idx, val) ==
    LET p == PyListIndex(Len(ss.stats_vec), idx)
    IN  IF p = 0
        THEN [set |-> ss, out |-> Raises("IndexError")]
        ELSE [set |-> [ss EXCEPT !.stats_vec[p] = Stats_AddSample(@, val)],
              out |-> Returns(PyInt(idx))]

\* StatsSet.Clear() looping over range(0, len - 1): the last accumulator is kept
StatsSet_Clear_SkipLast(ss) ==
    LET n == Len(ss.stats_vec)
    IN  IF n = 0 THEN ss
        ELSE [ss EXCEPT !.stats_vec =
                Append([i \in 1..(n - 1) |-> Stats_Clear], ss.stats_vec[n])]

\* StatsSet.Clear()
StatsSet_Clear(ss) ==
    [ss EXCEPT !.stats_vec = [i \in 1..Len(ss.stats_vec) |-> Stats_Clear]]

(***************************************************************************)
(* class KNNMatcher (lines 26-37).  A candidate (cv.DMatch) is a record    *)
(* [queryIdx, trainIdx, distance]; all_matches is the knnMatch result, one *)
(* list of candidates per query descriptor.                                *)
(***************************************************************************)
\* the candidate of query position q (queryIdx q - 1) at distance d
Candidate(q, t, d) == [queryIdx |-> q - 1, trainIdx |-> t, distance |-> d]

\* KNNMatcher.__init__
KNNMatcher_Init == [all_matches |-> <<>>, good_matches |-> <<>>]

\* default value of the parameter Lowe_ratio_thresh (line 32): 0.7
Lowe_ratio_thresh == Rat(7, 10)

\* the test of line 36 on one candidate list m
RatioTest(m, thresh) ==
    /\ Len(m) >= 2
    /\ RLess(IntRat(m[1].distance), RMul(thresh, IntRat(m[2].distance)))

\* the loop of lines 35-37 from list position i on, good being the list so far
RECURSIVE MatchLoop(_, _, _, _)
MatchLoop(all, i, good, thresh) ==
    IF i > Len(all) THEN good
    ELSE MatchLoop(all, i + 1,
                   IF RatioTest(all[i], thresh) THEN Append(good, all[i][1]) ELSE good,
                   thresh)

\* KNNMatcher.Match without the reset of line 34
KNNMatcher_Match_NoReset(k, knnResult, thresh) ==
    [all_matches |-> knnResult,
     good_matches |-> MatchLoop(knnResult, 1, k.good_matches, thresh)]

\* KNNMatcher.Match: knnResult is what matcher.knnMatch returned
KNNMatcher_Match(k, knnResult, thresh) ==
    [all_matches |-> knnResult, good_matches |-> MatchLoop(knnResult, 1, <<>>, thresh)]

(***************************************************************************)
(* State.                                                                  *)
(***************************************************************************)
VARIABLES
    \* the processing loop (module-level names of Example.py)
    useWebcam,                  \* line 187
    processEvery,               \* line 186
    minMatchesForBoundingBox,   \* line 185
    resize,                     \* line 188, a rational
    frameNo, fpsCounter, startTime,   \* line 263
    haveTransform,              \* line 267
    transform,                  \* line 304: [val, frame], frame = frameNo at assignment
    img,                        \* lines 272-279: "unbound", "frame" or "None"
    kpd,                        \* line 158: [keypoints |-> number of keypoints]
    knn,                        \* line 158: the KNNMatcher
    stats,                      \* line 256: the StatsSet
    clock,                      \* what time.time() returns, in seconds
    shown,                      \* the last composite given to cv.imshow (line 359)
    printed,                    \* the last report printed (lines 371-384)
    iterLog,                    \* the stages completed so far in the current
                                \* iteration, and the exception that ended it
    pc,                         \* position in the startup or in the loop body
    \* the startup (lines 174-250)
    params,                     \* lines 161-179: the entries find, superpose, using
    img_ref,                    \* line 195: "unbound" or "image"
    img_super,                  \* lines 197-199: "unbound", "None" or "image"
    detector,                   \* lines 210-222: "unbound", "sift", "surf" or "orb"
    kpd_ref,                    \* line 232: [keypoints |-> number of keypoints]
    errors,                     \* the failure messages printed so far
    \* the objects under test of SpecStats, SpecStatsSet and SpecKnn
    acc,                        \* one Stats object
    fed,                        \* the samples given to acc since it was last empty
    ret,                        \* the last call made and its outcome
    calls                       \* number of Match calls made

startVars == <<params, img_ref, img_super, detector, kpd_ref, errors>>
cfgVars == <<useWebcam, processEvery, minMatchesForBoundingBox, resize, startVars>>
loopVars == <<frameNo, fpsCounter, startTime, haveTransform, transform, img, kpd,
              clock, shown, printed, iterLog, pc>>
testVars == <<acc, fed, ret, calls>>
vars == <<cfgVars, loopVars, knn, stats, testVars>>

\* the arguments of a call: a key, an index and a sample value, None where the
\* call has no such argument
Args(key, idx, x) == [key |-> key, idx |-> idx, x |-> x]
NoArgs == Args("", None, None)

\* the record ret of the call op(args) and its outcome
Call(op, args, outcome) ==
    [op |-> op, args |-> args, raised |-> outcome.raised, val |-> outcome.val]

\* no call made yet
NoCall == Call("", NoArgs, Returns(None))

\* the objects under test, unused
TestParked ==
    /\ acc = Stats_Clear
    /\ fed = <<>>
    /\ ret = NoCall
    /\ calls = 0

\* the startup, not run: the defaults of lines 161-168
StartParked ==
    /\ params = [find |-> "", superpose |-> "", using |-> "SIFT"]
    /\ img_ref = "unbound"
    /\ img_super = "unbound"
    /\ detector = "unbound"
    /\ kpd_ref = [keypoints |-> 0]
    /\ errors = <<>>

\* the startup, done without a failure: a reference image of RefKeypoints
\* keypoints, no image to superpose, the default detector
Started ==
    /\ params = [find |-> "ref.png", superpose |-> "", using |-> "SIFT"]
    /\ img_ref = "image"
    /\ img_super = "None"
    /\ detector = "sift"
    /\ kpd_ref = [keypoints |-> RefKeypoints]
    /\ errors = <<>>

\* the loop, not started: the defaults of lines 161-168
LoopParked ==
    /\ StartParked
    /\ useWebcam = TRUE
    /\ processEvery = 1
    /\ minMatchesForBoundingBox = 4
    /\ resize = IntRat(1)
    /\ frameNo = 0 /\ fpsCounter = 0 /\ startTime = 0 /\ clock = 0
    /\ haveTransform = FALSE
    /\ transform = [val |-> "unbound", frame |-> 0]
    /\ img = "unbound"
    /\ kpd = [keypoints |-> 0]
    /\ shown = [layout |-> "none", frame |-> 0]
    /\ printed = [count |-> 0, good |-> 0, matrix |-> FALSE]
    /\ iterLog = <<>>
    /\ pc = "off"

(***************************************************************************)
(* The processing loop (lines 256-393).  One action per stage of the loop  *)
(* body; pc is the stage to run next.  Time is the variable clock, in      *)
(* ticks; a timed stage takes one tick, the wait for a key none or one.    *)
(***************************************************************************)
\* values of the command line parameters every=, min= and the scale of in=
ProcessEveryInputs == {0, 1, 2}
MinMatchesInputs == {3, 4}
ResizeInputs == {IntRat(1), Rat(1, 2)}

\* time.time() - t1 of a timed stage, in ticks: a stage takes time
Durations == {1}
\* ticks that pass in cv.waitKey(30) and the read of the next frame
WaitTicks == {0, 1}

\* numbers of keypoints detectAndCompute finds in a frame
KeypointCounts == {0, 4, 5}

\* what matcher.knnMatch returns for the reference descriptors: the first k
\* queries pass the ratio test, the others do not
LoopKnnResult(k) ==
    [q \in 1..RefKeypoints |->
        IF q <= k THEN <<Candidate(q, 0, 3), Candidate(q, 1, 10)>>
        ELSE IF q = RefKeypoints THEN <<Candidate(q, 0, 3)>>
        ELSE <<Candidate(q, 0, 7), Candidate(q, 1, 10)>>]

LoopKnnResults == {LoopKnnResult(k) : k \in 0..RefKeypoints}

\* lines 256-261: the registry after the five AddName calls
StageNames == <<"detect", "knn", "homography", "draw", "resize">>

RECURSIVE RegisterStages(_, _)
RegisterStages(ss, i) ==
    IF i > Len(StageNames) THEN ss
    ELSE RegisterStages(StatsSet_AddName(ss, StageNames[i]).set, i + 1)

RegisteredStats == RegisterStages(StatsSet_Init, 1)

detect_idx == RegisteredStats.key_to_idx["detect"]
knn_idx == RegisteredStats.key_to_idx["knn"]
homography_idx == RegisteredStats.key_to_idx["homography"]
draw_idx == RegisteredStats.key_to_idx["draw"]
resize_idx == RegisteredStats.key_to_idx["resize"]

\* every duration recorded under 'draw', whatever the stage
Timed_ToDraw(ss, idx, d) == StatsSet_AddSample(ss, draw_idx, IntRat(d)).set

\* stats.AddSample(idx, time.time() - t1) of a stage that took d ticks
Timed(ss, idx, d) == StatsSet_AddSample(ss, idx, IntRat(d)).set

\* the loop body without the reset of line 267
HaveTransformAtTop_Kept(h) == h

\* line 267: haveTransform at the top of the loop body, h being its old value
HaveTransformAtTop(h) == FALSE

\* the frame-skip check on a frame index counted from 0
ShouldProcess_FromZero(webcam, n, every) == (webcam = FALSE) \/ ((n - 1) % every = 0)

\* line 282: the frame-skip check; processEvery = 0 is handled by the caller
ShouldProcess(webcam, n, every) == (webcam = FALSE) \/ (n % every = 0)

\* the keypoint gate with >= for >
EnoughKeypoints_AtLeast(n) == n >= 4

\* line 292: the keypoint gate
EnoughKeypoints(n) == n > 4

\* the good-match gate with >= for >
SufficientGoodMatches_AtLeast(k, minMatches) == Len(k.good_matches) >= minMatches

\* line 298: the good-match gate
SufficientGoodMatches(k, minMatches) == Len(k.good_matches) > minMatches

\* a fit counted as a transform whatever cv.findHomography returned
IsMatrix_Always(fit) == TRUE

\* line 305: type(transform) == np.ndarray
IsMatrix(fit) == fit = "matrix"

\* the report made as soon as one full second has passed
ReportDue_AtLeast(now, start) == now - start >= TicksPerSecond

\* lines 368-370: deltaTime > 1.0
ReportDue(now, start) == now - start > TicksPerSecond

\* the report counting every query of the last matching call
GoodMatchCount_AllQueries(k) == Len(k.all_matches)

\* line 378: len(knn.good_matches)
GoodMatchCount(k) == Len(k.good_matches)

\* line 376: the sum of the means of all accumulators
RECURSIVE SumMeans(_, _)
SumMeans(vec, i) ==
    IF i > Len(vec) THEN Zero ELSE RAdd(vec[i].mean, SumMeans(vec, i + 1))

Log(stage) == iterLog' = Append(iterLog, stage)

\* an exception caught around the loop body, the loop going on to its exit check
Crash_Swallowed(exception) ==
    /\ pc' = "wait"
    /\ Log(exception)

\* an exception propagates out of the loop: the process ends with a traceback
Crash(exception) ==
    /\ pc' = "crashed"
    /\ Log(exception)

Init ==
    /\ useWebcam \in BOOLEAN
    /\ processEvery \in ProcessEveryInputs
    /\ minMatchesForBoundingBox \in MinMatchesInputs
    /\ resize \in ResizeInputs
    /\ frameNo = 0 /\ fpsCounter = 0 /\ startTime = 0 /\ clock = 0
    /\ haveTransform = FALSE
    /\ transform = [val |-> "unbound", frame |-> 0]
    /\ img = "unbound"
    /\ kpd = [keypoints |-> 0]
    /\ knn = KNNMatcher_Init
    /\ stats = RegisteredStats
    /\ shown = [layout |-> "none", frame |-> 0]
    /\ printed = [count |-> 0, good |-> 0, matrix |-> FALSE]
    /\ iterLog = <<>>
    /\ pc = "read"
    /\ Started
    /\ TestParked

\* lines 265-275: the top of the loop body and the read of the frame.  A live
\* source may return no frame (img is None); loadImage exits the process when
\* the image cannot be read.
ReadFrame ==
    /\ pc = "read"
    /\ frameNo < MaxFrames
    /\ haveTransform' = HaveTransformAtTop(haveTransform)
    /\ frameNo' = frameNo + 1
    /\ fpsCounter' = fpsCounter + 1
    /\ iterLog' = <<>>
    /\ \E ok \in BOOLEAN :
          IF useWebcam
          THEN /\ img' = IF ok THEN "frame" ELSE "None"
               /\ pc' = "resize"
          ELSE /\ img' = IF ok THEN "frame" ELSE img
               /\ pc' = IF ok THEN "resize" ELSE "exited"
    /\ UNCHANGED <<cfgVars, startTime, transform, kpd, knn, stats, clock, shown,
                   printed, testVars>>

\* lines 277-280: cv.resize raises on an empty image
Resize ==
    /\ pc = "resize"
    /\ IF resize # IntRat(1)
       THEN IF img = "None"
            THEN /\ Crash("cv2.error")
                 /\ UNCHANGED <<stats, clock>>
            ELSE \E d \in Durations :
                    /\ stats' = Timed(stats, resize_idx, d)
                    /\ clock' = clock + d
                    /\ Log("resize")
                    /\ pc' = "gate"
       ELSE /\ pc' = "gate"
            /\ UNCHANGED <<stats, clock, iterLog>>
    /\ UNCHANGED <<cfgVars, frameNo, fpsCounter, startTime, haveTransform, transform,
                   img, kpd, knn, shown, printed, testVars>>

\* lines 282-292: the frame-skip check, detection and the keypoint gate.
\* frameNo % 0 raises ZeroDivisionError.  On an empty image detectAndCompute
\* either raises or finds no keypoint, depending on the detector.
Detect ==
    /\ pc = "gate"
    /\ IF useWebcam /\ processEvery = 0
       THEN /\ Crash("ZeroDivisionError")
            /\ UNCHANGED <<kpd, stats, clock>>
       ELSE IF ShouldProcess(useWebcam, frameNo, processEvery)
       THEN \/ /\ img = "None"
               /\ Crash("cv2.error")
               /\ UNCHANGED <<kpd, stats, clock>>
            \/ \E n \in KeypointCounts, d \in Durations :
                 /\ img = "None" => n = 0
                 /\ kpd' = [keypoints |-> n]
                 /\ stats' = Timed(stats, detect_idx, d)
                 /\ clock' = clock + d
                 /\ Log("detect")
                 /\ pc' = IF EnoughKeypoints(n) THEN "match" ELSE "composite"
       ELSE /\ Log("skip")
            /\ pc' = "composite"
            /\ UNCHANGED <<kpd, stats, clock>>
    /\ UNCHANGED <<cfgVars, frameNo, fpsCounter, startTime, haveTransform, transform,
                   img, knn, shown, printed, testVars>>

\* lines 294-298: matching and the good-match gate
Match ==
    /\ pc = "match"
    /\ \E r \in LoopKnnResults, d \in Durations :
          /\ knn' = KNNMatcher_Match(knn, r, Lowe_ratio_thresh)
          /\ stats' = Timed(stats, knn_idx, d)
          /\ clock' = clock + d
    /\ Log("knn")
    /\ pc' = IF SufficientGoodMatches(knn', minMatchesForBoundingBox)
             THEN "estimate" ELSE "composite"
    /\ UNCHANGED <<cfgVars, frameNo, fpsCounter, startTime, haveTransform, transform,
                   img, kpd, shown, printed, testVars>>

\* lines 301-306: cv.findHomography returns a matrix, or None when the fit fails
Estimate ==
    /\ pc = "estimate"
    /\ \E fit \in {"matrix", "None"}, d \in Durations :
          /\ transform' = [val |-> fit, frame |-> frameNo]
          /\ haveTransform' = IsMatrix(fit)
          /\ stats' = Timed(stats, homography_idx, d)
          /\ clock' = clock + d
    /\ Log("homography")
    /\ pc' = "composite"
    /\ UNCHANGED <<cfgVars, frameNo, fpsCounter, startTime, img, kpd, knn, shown,
                   printed, testVars>>

\* lines 312-360: img.shape raises AttributeError when img is None; otherwise
\* the composite is drawn and shown.  With a transform the layout is that of
\* cv.drawMatches (bounding box, match lines and, if given, the superposed
\* image); without one it is the reference image beside the frame.
Composite ==
    /\ pc = "composite"
    /\ IF img = "None"
       THEN /\ Crash("AttributeError")
            /\ UNCHANGED <<shown, stats, clock>>
       ELSE \E d \in Durations :
              /\ shown' = [layout |-> IF haveTransform THEN "matches" ELSE "fallback",
                           frame  |-> frameNo]
              /\ stats' = Timed(stats, draw_idx, d)
              /\ clock' = clock + d
              /\ Log("draw")
              /\ pc' = "report"
    /\ UNCHANGED <<cfgVars, frameNo, fpsCounter, startTime, haveTransform, transform,
                   img, kpd, knn, printed, testVars>>

\* lines 368-387: the report, once more than one second has passed
Report ==
    /\ pc = "report"
    /\ IF ReportDue(clock, startTime)
       THEN IF SumMeans(stats.stats_vec, 1) = Zero
            THEN /\ Crash("ZeroDivisionError")
                 /\ UNCHANGED <<printed, fpsCounter, startTime, stats>>
            ELSE /\ printed' = [count  |-> printed.count + 1,
                                good   |-> GoodMatchCount(knn),
                                matrix |-> haveTransform]
                 /\ fpsCounter' = 0
                 /\ startTime' = clock
                 /\ stats' = StatsSet_Clear(stats)
                 /\ Log("report")
                 /\ pc' = "wait"
       ELSE /\ pc' = "wait"
            /\ UNCHANGED <<printed, fpsCounter, startTime, stats, iterLog>>
    /\ UNCHANGED <<cfgVars, frameNo, haveTransform, transform, img, kpd, knn, clock,
                   shown, testVars>>

\* lines 389-393: with a live source a key press ends the loop; with a static
\* image the loop ends after the key press cv.waitKey() waits for
WaitKey ==
    /\ pc = "wait"
    /\ IF useWebcam
       THEN \E key \in BOOLEAN, d \in WaitTicks :
              /\ pc' = IF key THEN "done" ELSE "read"
              /\ clock' = clock + d
       ELSE /\ pc' = "done"
            /\ UNCHANGED clock
    /\ UNCHANGED <<cfgVars, frameNo, fpsCounter, startTime, haveTransform, transform,
                   img, kpd, knn, stats, shown, printed, iterLog, testVars>>

Next == ReadFrame \/ Resize \/ Detect \/ Match \/ Estimate \/ Composite \/ Report \/ WaitKey

Spec == Init /\ [][Next]_vars

\* the stage x was completed (or the exception x raised) in the current iteration
Ran(x) == \E i \in 1..Len(iterLog) : iterLog[i] = x

ProcessesFrame(n) ==
    (useWebcam = FALSE) \/ (processEvery # 0 /\ n % processEvery = 0)

\* C3: in every iteration that reaches the frame-skip check, of frame index n
\* counted from 1, detection runs if and only if the source is not live or
\* n mod everyN = 0; where detection did not run, neither matching nor the
\* estimation runs.
C3_FrameSkip ==
    /\ Ran("detect") => (frameNo >= 1 /\ ProcessesFrame(frameNo))
    /\ Ran("skip") => (frameNo >= 1 /\ ~ProcessesFrame(frameNo))
    /\ pc \in {"match", "estimate", "composite", "report", "wait", "done"} =>
          (Ran("detect") \/ Ran("skip"))
    /\ ~Ran("detect") => (~Ran("knn") /\ ~Ran("homography"))

\* C3 witness: with every=2 the third frame of a live source was shown without
\* detection
C3_Witness ==
    /\ useWebcam /\ processEvery = 2 /\ frameNo = 3
    /\ Ran("skip") /\ ~Ran("detect")
    /\ Ran("draw")

\* C4 as claimed: when detection is skipped on a live frame and the composite
\* shown before was the valid-transform rendering, the skipped frame is shown
\* with that rendering too.
C4_SkippedFrameCarriesForward ==
    [][(pc = "composite" /\ pc' = "report" /\ Ran("skip") /\ shown.layout = "matches")
          => shown'.layout = "matches"]_vars

\* C4 amended: a live frame on which detection is skipped is shown in the
\* no-transform fallback layout (reference image beside the newly read frame),
\* whatever was shown before.
C4_SkippedFrameShowsFallback ==
    (Ran("skip") /\ Ran("draw")) =>
        (haveTransform = FALSE /\ shown = [layout |-> "fallback", frame |-> frameNo])

\* C4 witness: the frame before had a valid transform, and the skipped frame is
\* shown in the fallback layout
C4_Witness ==
    /\ Ran("skip") /\ Ran("draw")
    /\ transform = [val |-> "matrix", frame |-> frameNo - 1]
    /\ shown = [layout |-> "fallback", frame |-> frameNo]

\* the live source returned no frame in the current iteration (line 272)
NoFrame == useWebcam /\ img = "None"

\* C11: when the live source returns no frame, the loop ends in that same
\* iteration: the iteration is somewhere before the display or ended by an
\* exception, it shows no composite for that frame, the only step left at the
\* display stage is the exception, and no later frame is read.
C11_CaptureFailureEndsLoop ==
    /\ [](NoFrame => /\ pc \in {"resize", "gate", "composite", "crashed"}
                     /\ shown.frame # frameNo
                     /\ ~Ran("draw"))
    /\ [][NoFrame => /\ frameNo' = frameNo
                     /\ img' = img
                     /\ (pc = "composite" => pc' = "crashed")]_vars

\* C11 witness: the first frame was displayed, the second read returned no
\* frame, and the loop ended at img.shape without a second display
C11_Witness ==
    /\ NoFrame
    /\ frameNo = 2
    /\ pc = "crashed" /\ Ran("AttributeError")
    /\ shown = [layout |-> "fallback", frame |-> 1]

\* the frame of the current live iteration gave too little to locate the
\* target: too few keypoints (line 292), too few good matches (line 298) or a
\* fit that returned no matrix (lines 304-305)
InsufficientSignal ==
    /\ useWebcam /\ img = "frame"
    /\ \/ Ran("detect") /\ kpd.keypoints <= 4
       \/ Ran("knn") /\ Len(knn.good_matches) <= minMatchesForBoundingBox
       \/ Ran("homography") /\ transform = [val |-> "None", frame |-> frameNo]

C14_LoopTermination ==
    /\ ~useWebcam =>
          /\ frameNo <= 1
          /\ pc = "read" => frameNo = 0
          /\ pc # "crashed"
          /\ pc \in {"match", "composite", "report", "wait", "done"} => Ran("detect")
    /\ useWebcam =>
          /\ pc # "exited"
          /\ pc = "crashed" => NoFrame
          /\ pc = "done" => Ran("draw")

\* the number of samples the registry holds under a stage name
Count(name) == stats.stats_vec[RegisteredStats.key_to_idx[name] + 1].N
CountAfter(name) == stats'.stats_vec[RegisteredStats.key_to_idx[name] + 1].N

\* the position of a stage in the order resize, detect, knn, homography, draw
StageOrder == <<"resize", "detect", "knn", "homography", "draw">>
Rank(x) == CHOOSE i \in 1..Len(StageOrder) : StageOrder[i] = x
IsStage(x) == \E i \in 1..Len(StageOrder) : StageOrder[i] = x

\* the stages timed so far in the current iteration, in the order of their samples
Sampled == SelectSeq(iterLog, IsStage)

\* the iteration has reached the end of the loop body's stages
IterationCompleted == pc \in {"report", "wait", "done"} \/ (pc = "read" /\ frameNo > 0)

\* C15: every sample the registry receives is the one sample of the stage just
\* timed, and nothing else changes the registry but the clearing in a report;
\* the stages of an iteration are sampled at most once each, in the order
\* resize, detect, knn, homography, draw; a completed iteration has exactly
\* one draw sample, a resize sample iff the scale factor is not 1, a detect
\* sample iff the frame was processed, a knn sample iff detection found more
\* than 4 keypoints, a homography sample iff matching left more good matches
\* than the minimum; and at the end of every iteration
\* count(homography) <= count(knn) <= count(detect) <= count(draw).
C15_StageSamples ==
    /\ [][/\ \A x \in {"resize", "detect", "knn", "homography", "draw"} :
               iterLog' = Append(iterLog, x) =>
                  /\ CountAfter(x) = Count(x) + 1
                  /\ \A y \in {"resize", "detect", "knn", "homography", "draw"} \ {x} :
                        CountAfter(y) = Count(y)
                  /\ stats'.key_to_idx = stats.key_to_idx
          /\ iterLog' = Append(iterLog, "report") =>
                \A y \in {"resize", "detect", "knn", "homography", "draw"} :
                   CountAfter(y) = 0
          /\ (\A x \in {"resize", "detect", "knn", "homography", "draw", "report"} :
                 iterLog' # Append(iterLog, x)) => stats' = stats]_vars
    /\ [](\A i, j \in 1..Len(Sampled) : i < j => Rank(Sampled[i]) < Rank(Sampled[j]))
    /\ [](IterationCompleted =>
            /\ Ran("draw")
            /\ Ran("resize") <=> resize # IntRat(1)
            /\ Ran("detect") <=> ProcessesFrame(frameNo)
            /\ Ran("knn") <=> (Ran("detect") /\ kpd.keypoints > 4)
            /\ Ran("homography") <=>
                  (Ran("knn") /\ Len(knn.good_matches) > minMatchesForBoundingBox)
            /\ Count("homography") <= Count("knn")
            /\ Count("knn") <= Count("detect")
            /\ Count("detect") <= Count("draw"))

\* C15 witness: the second iteration has completed its stages with all five
\* sampled, the first having gone without detection
C15_Witness ==
    /\ pc = "report"
    /\ frameNo = 2
    /\ Sampled = StageOrder
    /\ Count("draw") = 2
    /\ Count("homography") = 1

\* the step prints a report
Reports == printed'.count = printed.count + 1

FitOfThisFrame ==
    /\ Ran("homography")
    /\ transform = [val |-> "matrix", frame |-> frameNo]

\* C17: whenever haveTransform holds, the transform is a matrix assigned by
\* the fit of the current iteration; the composite drawn with the transform
\* (bounding box, superposed image, match lines) is drawn if and only if the
\* fit of this iteration returned a matrix, and a report prints the matrix if
\* and only if the fit of the reporting iteration returned one.
C17_TransformOfThisFrame ==
    /\ [](haveTransform => FitOfThisFrame)
    /\ [][/\ (pc = "composite" /\ pc' = "report") =>
                (shown'.layout = "matches" <=> FitOfThisFrame)
          /\ Reports => (printed'.matrix <=> FitOfThisFrame)]_vars

\* C17 witness: a report made in an iteration without a transform, right
\* after an iteration whose fit returned a matrix, has not printed a matrix
C17_Witness ==
    /\ pc = "wait" /\ Ran("report")
    /\ printed.matrix = FALSE
    /\ transform = [val |-> "matrix", frame |-> frameNo - 1]
    /\ shown = [layout |-> "fallback", frame |-> frameNo]

\* C19: knn changes only in the matching step, which replaces good_matches
\* by the matches of the current frame that pass the ratio test; a step of an
\* iteration without matching leaves it as it is, so that a report prints
\* the length of the list left by the last matching step, whichever iteration
\* that was in, and 0 when there has been none.
C19_GoodMatchesKeptBetweenMatches ==
    /\ [][/\ pc # "match" => knn' = knn
          /\ pc = "match" =>
                /\ Len(knn'.all_matches) = RefKeypoints
                /\ knn'.good_matches =
                      MatchLoop(knn'.all_matches, 1, <<>>, Rat(7, 10))
          /\ Reports => printed'.good = Len(knn.good_matches)]_vars
    /\ [](knn = KNNMatcher_Init => printed.good = 0)

\* C19 witness: a report made in an iteration that skipped the frame has
\* printed the number of good matches of the previous iteration
C19_Witness ==
    /\ pc = "wait" /\ Ran("report") /\ Ran("skip")
    /\ printed.good > 0
    /\ printed.good = Len(knn.good_matches)
    /\ transform.frame = frameNo - 1

(***************************************************************************)
(* SpecProgram: the startup (lines 185-263) followed by the processing     *)
(* loop.  The command line has at least one argument and lines 177-188     *)
(* have parsed it: the initial state holds the parsed parameters.          *)
(***************************************************************************)
\* values of find=, superpose= and using=; "" is the default of find and superpose
FindInputs == {"", "ref.png"}
SuperposeInputs == {"", "logo.png", "missing.png"}
UsingInputs == {"SIFT", "orb", "hog"}

\* the paths cv.imread can read and decode
ReadableFiles == {"ref.png", "logo.png"}

\* numbers of keypoints detectAndCompute finds in the reference image
RefKeypointCounts == {3, RefKeypoints}

\* line 146: cv.imread returns the image, or None
imread(path) == IF path \in ReadableFiles THEN "image" ELSE "None"

\* lines 142-143
isValid(i) == i # "None"

\* lines 145-150: the image; or the message printed and sys.exit(-1)
loadImage(path) ==
    IF isValid(imread(path))
    THEN [exits |-> FALSE, message |-> <<>>, val |-> imread(path)]
    ELSE [exits |-> TRUE, message |-> <<"Unable to open file">>, val |-> "None"]

\* line 208: str.lower on the selector
Lower(s) ==
    CASE s = "SIFT" -> "sift"
      [] s = "SURF" -> "surf"
      [] s = "ORB"  -> "orb"
      [] OTHER      -> s

loopData == <<frameNo, fpsCounter, startTime, haveTransform, transform, img, kpd,
              clock, shown, printed>>
configured == <<useWebcam, processEvery, minMatchesForBoundingBox, resize, params>>

InitProgram ==
    /\ useWebcam \in BOOLEAN
    /\ processEvery \in ProcessEveryInputs
    /\ minMatchesForBoundingBox \in MinMatchesInputs
    /\ resize \in ResizeInputs
    /\ params \in [find : FindInputs, superpose : SuperposeInputs, using : UsingInputs]
    /\ img_ref = "unbound"
    /\ img_super = "unbound"
    /\ detector = "unbound"
    /\ kpd_ref = [keypoints |-> 0]
    /\ errors = <<>>
    /\ frameNo = 0 /\ fpsCounter = 0 /\ startTime = 0 /\ clock = 0
    /\ haveTransform = FALSE
    /\ transform = [val |-> "unbound", frame |-> 0]
    /\ img = "unbound"
    /\ kpd = [keypoints |-> 0]
    /\ knn = KNNMatcher_Init
    /\ stats = StatsSet_Init
    /\ shown = [layout |-> "none", frame |-> 0]
    /\ printed = [count |-> 0, good |-> 0, matrix |-> FALSE]
    /\ iterLog = <<>>
    /\ pc = "loadRef"
    /\ TestParked

\* line 195
LoadReference ==
    /\ pc = "loadRef"
    /\ LET r == loadImage(params.find) IN
          /\ errors' = errors \o r.message
          /\ img_ref' = IF r.exits THEN img_ref ELSE r.val
          /\ pc' = IF r.exits THEN "exited" ELSE "loadSuper"
    /\ UNCHANGED <<configured, img_super, detector, kpd_ref, loopData, iterLog,
                   knn, stats, testVars>>

\* lines 197-201
LoadSuperpose ==
    /\ pc = "loadSuper"
    /\ IF params.superpose # ""
       THEN LET r == loadImage(params.superpose) IN
              /\ errors' = errors \o r.message
              /\ img_super' = IF r.exits THEN "None" ELSE r.val
              /\ pc' = IF r.exits THEN "exited" ELSE "detector"
       ELSE /\ img_super' = "None"
            /\ pc' = "detector"
            /\ UNCHANGED errors
    /\ UNCHANGED <<configured, img_ref, detector, kpd_ref, loopData, iterLog,
                   knn, stats, testVars>>

\* lines 207-226
CreateDetector ==
    /\ pc = "detector"
    /\ LET algo_name == Lower(params.using) IN
          IF algo_name \in {"sift", "surf", "orb"}
          THEN /\ detector' = algo_name
               /\ pc' = "refKeypoints"
               /\ UNCHANGED errors
          ELSE /\ errors' = Append(errors, "Unknown recogniser")
               /\ pc' = "exited"
               /\ UNCHANGED detector
    /\ UNCHANGED <<configured, img_ref, img_super, kpd_ref, loopData, iterLog,
                   knn, stats, testVars>>

\* lines 232-236: with fewer than 4 keypoints the argument of print names
\* ref_kpd, which is not defined: NameError, nothing is printed
DetectReference ==
    /\ pc = "refKeypoints"
    /\ \E n \in RefKeypointCounts :
          /\ kpd_ref' = [keypoints |-> n]
          /\ IF n < 4
             THEN Crash("NameError")
             ELSE /\ pc' = "openCapture"
                  /\ UNCHANGED iterLog
    /\ UNCHANGED <<configured, img_ref, img_super, detector, errors, loopData,
                   knn, stats, testVars>>

\* lines 242-263: the window, the capture device of a live source (sys.exit(-1)
\* when it does not open), the registration of the stage names
OpenCapture ==
    /\ pc = "openCapture"
    /\ \E opened \in BOOLEAN :
          IF useWebcam /\ ~opened
          THEN /\ pc' = "exited"
               /\ UNCHANGED stats
          ELSE /\ stats' = RegisteredStats
               /\ pc' = "read"
    /\ UNCHANGED <<configured, img_ref, img_super, detector, kpd_ref, errors,
                   loopData, iterLog, knn, testVars>>

NextProgram ==
    \/ LoadReference \/ LoadSuperpose \/ CreateDetector \/ DetectReference
    \/ OpenCapture
    \/ ReadFrame \/ Resize \/ Detect \/ Match \/ Estimate \/ Composite \/ Report
    \/ WaitKey

SpecProgram == InitProgram /\ [][NextProgram]_vars

\* the process ended in the startup
ConfigurationFailure == pc = "exited" /\ frameNo = 0

\* C13: whenever a configuration failure (target or superpose image not
\* readable, unknown algorithm selector, live source not opened) ends the
\* process, a failure message has been printed, and no frame has been read,
\* processed or displayed.
C13_ConfigurationFailureReported ==
    ConfigurationFailure =>
        /\ errors # <<>>
        /\ img = "unbound"
        /\ shown = [layout |-> "none", frame |-> 0]
        /\ stats = StatsSet_Init

(***************************************************************************)
(* SpecStats: any sequence of calls on one Stats object.                   *)
(***************************************************************************)
\* values given to AddSample
SampleValues == {IntRat(-1), IntRat(0), IntRat(2), Rat(5, 2)}

InitStats ==
    /\ LoopParked
    /\ knn = KNNMatcher_Init
    /\ stats = StatsSet_Init
    /\ TestParked

DoAddSample ==
    \E x \in SampleValues :
        /\ Len(fed) < MaxSamples
        /\ acc' = Stats_AddSample(acc, x)
        /\ fed' = Append(fed, x)
        /\ ret' = Call("AddSample", Args("", None, x), Returns(None))
        /\ UNCHANGED <<cfgVars, loopVars, knn, stats, calls>>

DoClear ==
    /\ acc' = Stats_Clear
    /\ fed' = <<>>
    /\ ret' = Call("Clear", NoArgs, Returns(None))
    /\ UNCHANGED <<cfgVars, loopVars, knn, stats, calls>>

DoSum ==
    /\ ret' = Call("Sum", NoArgs, Stats_Sum(acc))
    /\ UNCHANGED <<cfgVars, loopVars, knn, stats, acc, fed, calls>>

DoVariance ==
    /\ ret' = Call("Variance", NoArgs, Stats_Variance(acc))
    /\ UNCHANGED <<cfgVars, loopVars, knn, stats, acc, fed, calls>>

DoStdDev ==
    /\ ret' = Call("StdDev", NoArgs, Stats_StdDev(acc))
    /\ UNCHANGED <<cfgVars, loopVars, knn, stats, acc, fed, calls>>

DoStdErr ==
    /\ ret' = Call("StdErr", NoArgs, Stats_StdErr(acc))
    /\ UNCHANGED <<cfgVars, loopVars, knn, stats, acc, fed, calls>>

NextStats == DoAddSample \/ DoClear \/ DoSum \/ DoVariance \/ DoStdDev \/ DoStdErr

SpecStats == InitStats /\ [][NextStats]_vars

\* every sample given since acc was last empty has the same value
ConstantFeed == \A i \in 1..Len(fed) : fed[i] = fed[1]

\* C9: whenever the sample count is 0 or 1 (after any sequence of AddSample and
\* Clear calls), Variance() and StdErr() return 0 and do not raise.
C9_LowCountVarianceStdErrZero ==
    acc.N \in {0, 1} =>
        /\ Stats_Variance(acc) = Returns(Zero)
        /\ Stats_StdErr(acc) = Returns(Zero)
        /\ ret.op \in {"Variance", "StdErr"} => (ret.raised = "" /\ ret.val = Zero)

\* C9 witness: StdErr() was called on an accumulator holding one sample
C9_Witness ==
    /\ acc.N = 1
    /\ ret.op = "StdErr"
    /\ ret.raised = ""
    /\ ret.val = Zero

\* C10: n > 1 samples of one value v given to an empty (fresh or cleared)
\* accumulator leave N = n, mean = min = max = v, S = 0 and Variance() = 0.
C10_ConstantFeed ==
    (Len(fed) > 1 /\ ConstantFeed) =>
        /\ acc = [N |-> Len(fed), S |-> Zero,
                  min |-> fed[1], mean |-> fed[1], max |-> fed[1]]
        /\ Stats_Variance(acc) = Returns(Zero)

\* C10 witness: Variance() was called after three samples of 5/2
C10_Witness ==
    /\ fed = <<Rat(5, 2), Rat(5, 2), Rat(5, 2)>>
    /\ ret.op = "Variance"
    /\ ret.val = Zero

\* C18: no accessor of Stats raises: whatever the count, the last call of
\* Sum, Variance, StdDev or StdErr returned a value; StdDev returned the
\* square root of what Variance returns, so its square is that variance.
C18_AccessorsNeverRaise ==
    /\ ret.op \in {"Sum", "Variance", "StdDev", "StdErr"} =>
          (ret.raised = "" /\ ret.val # None)
    /\ (ret.op = "StdDev" /\ ret.raised = "") =>
          RMul(ret.val, ret.val) = Stats_Variance(acc).val

(***************************************************************************)
(* SpecStatsSet: any sequence of calls on one StatsSet object.             *)
(***************************************************************************)
\* keys given to AddName and AddNamedSample
Keys == {"detect", "knn", "draw"}
\* values given to AddSample and AddNamedSample
SetSampleValues == {IntRat(1), IntRat(3)}
\* indices given to AddSample: every index of a full registry, and beyond it
\* on both sides
SetIndices == -(Cardinality(Keys) + 1) .. Cardinality(Keys)

\* the number of samples the accumulators of ss hold
RECURSIVE SumN(_, _)
SumN(vec, i) == IF i > Len(vec) THEN 0 ELSE vec[i].N + SumN(vec, i + 1)
SamplesHeld(ss) == SumN(ss.stats_vec, 1)

InitStatsSet ==
    /\ LoopParked
    /\ knn = KNNMatcher_Init
    /\ stats = StatsSet_Init
    /\ TestParked

SetAddName ==
    \E key \in Keys :
        LET r == StatsSet_AddName(stats, key)
        IN  /\ stats' = r.set
            /\ ret' = Call("AddName", Args(key, None, None), r.out)
            /\ UNCHANGED <<cfgVars, loopVars, knn, acc, fed, calls>>

SetAddNamedSample ==
    \E key \in Keys, val \in SetSampleValues :
        LET r == StatsSet_AddNamedSample(stats, key, val)
        IN  /\ stats' = r.set
            /\ ret' = Call("AddNamedSample", Args(key, None, val), r.out)
            /\ UNCHANGED <<cfgVars, loopVars, knn, acc, fed, calls>>

SetAddSample ==
    \E idx \in SetIndices, val \in SetSampleValues :
        LET r == StatsSet_AddSample(stats, idx, val)
        IN  /\ SamplesHeld(stats) < MaxSetSamples
            /\ stats' = r.set
            /\ ret' = Call("AddSample", Args("", PyInt(idx), val), r.out)
            /\ UNCHANGED <<cfgVars, loopVars, knn, acc, fed, calls>>

SetClear ==
    /\ stats' = StatsSet_Clear(stats)
    /\ ret' = Call("Clear", NoArgs, Returns(None))
    /\ UNCHANGED <<cfgVars, loopVars, knn, acc, fed, calls>>

NextStatsSet == SetAddName \/ SetAddNamedSample \/ SetAddSample \/ SetClear

SpecStatsSet == InitStatsSet /\ [][NextStatsSet]_vars

\* the registered names and the indices of the list of accumulators
Registered(ss) == DOMAIN ss.key_to_idx
ValidIndices(ss) == 0 .. Len(ss.stats_vec) - 1

\* key_to_idx maps the registered names one-to-one onto the valid indices
Bijection(ss) ==
    /\ \A k \in Registered(ss) : ss.key_to_idx[k] \in ValidIndices(ss)
    /\ \A i \in ValidIndices(ss) : \E k \in Registered(ss) : ss.key_to_idx[k] = i
    /\ \A k1, k2 \in Registered(ss) : ss.key_to_idx[k1] = ss.key_to_idx[k2] => k1 = k2

\* a step keeps every registered name and its index
IndicesKept ==
    \A k \in Registered(stats) :
        k \in Registered(stats') /\ stats'.key_to_idx[k] = stats.key_to_idx[k]

\* a step that is a call AddName(key) returns what the claim says
AddNameStep ==
    ret'.op = "AddName" =>
        /\ ret'.raised = ""
        /\ ret'.val = PyInt(stats'.key_to_idx[ret'.args.key])
        /\ IF ret'.args.key \in Registered(stats)
           THEN ret'.val = PyInt(stats.key_to_idx[ret'.args.key]) /\ stats' = stats
           ELSE /\ ret'.val = PyInt(Cardinality(Registered(stats)))
                /\ Len(stats'.stats_vec) = Len(stats.stats_vec) + 1

\* C5: after any sequence of StatsSet calls, AddName returns the same index on
\* every call for a name, a new name gets the number of names registered before
\* it, key_to_idx is a bijection from the registered names onto
\* 0..len(stats_vec)-1, and AddName on a registered name adds no accumulator.
C5_IndexStability ==
    /\ [](Bijection(stats))
    /\ [][IndicesKept /\ AddNameStep]_vars

\* C5 witness: AddName was called again on the first of three registered names
C5_Witness ==
    /\ Cardinality(Registered(stats)) = 3
    /\ ret.op = "AddName"
    /\ ret.val = PyInt(0)
    /\ \E i \in 1..3 : stats.stats_vec[i].N > 0

\* C6 as claimed: AddSample with any index outside 0..len(stats_vec)-1 raises
\* the out-of-range error and changes no accumulator.
C6_InvalidIndexRejected ==
    [][(ret'.op = "AddSample" /\ ret'.args.idx[1] \notin ValidIndices(stats))
          => (ret'.raised = "IndexError" /\ stats' = stats)]_vars

\* C7: Clear() leaves every accumulator empty and keeps the registered names,
\* the name-to-index map and the number of accumulators.
C7_ClearKeepsNames ==
    [][ret'.op = "Clear" =>
          /\ stats'.key_to_idx = stats.key_to_idx
          /\ Len(stats'.stats_vec) = Len(stats.stats_vec)
          /\ \A i \in 1..Len(stats'.stats_vec) :
                stats'.stats_vec[i] =
                    [N |-> 0, S |-> Zero, min |-> Zero, mean |-> Zero, max |-> Zero]
       ]_vars

\* C7 witness: Clear() was called on a registry of three names
C7_Witness ==
    /\ ret.op = "Clear"
    /\ Cardinality(Registered(stats)) = 3
    /\ \A i \in 1..Len(stats.stats_vec) : stats.stats_vec[i].N = 0

\* C20: a call AddNamedSample(key, val) leaves every accumulator as it is
\* (count, mean, S, min and max), whatever val; for a registered key it
\* changes nothing and returns the index of key; for a new key it registers
\* key at the next index with an empty accumulator and returns that index.
C20_AddNamedSampleRecordsNothing ==
    [][ret'.op = "AddNamedSample" =>
          LET key == ret'.args.key
              n   == Len(stats.stats_vec)
          IN  /\ ret'.raised = ""
              /\ \A i \in 1..n : stats'.stats_vec[i] = stats.stats_vec[i]
              /\ SamplesHeld(stats') = SamplesHeld(stats)
              /\ IF key \in DOMAIN stats.key_to_idx
                 THEN /\ stats' = stats
                      /\ ret'.val = PyInt(stats.key_to_idx[key])
                 ELSE /\ ret'.val = PyInt(n)
                      /\ stats'.stats_vec = Append(stats.stats_vec, Stats_Clear)
                      /\ DOMAIN stats'.key_to_idx = DOMAIN stats.key_to_idx \cup {key}
                      /\ stats'.key_to_idx[key] = n
                      /\ \A k \in DOMAIN stats.key_to_idx :
                            stats'.key_to_idx[k] = stats.key_to_idx[k]]_vars

\* C20 witness: AddNamedSample('knn', 3.0) on a registry holding one sample of
\* value 1.0 under 'detect' has registered 'knn' with an empty accumulator
C20_Witness ==
    /\ ret = Call("AddNamedSample", Args("knn", None, IntRat(3)), Returns(PyInt(1)))
    /\ DOMAIN stats.key_to_idx = {"detect", "knn"}
    /\ stats.stats_vec[1].N = 1 /\ stats.stats_vec[1].mean = IntRat(1)
    /\ stats.stats_vec[2] = Stats_Clear

(***************************************************************************)
(* SpecKnn: successive KNNMatcher.Match calls on one KNNMatcher.           *)
(***************************************************************************)
\* descriptor distances of the candidates
Distances == {3, 7, 10}

\* what knnMatch (k=2) may return for query position q: no candidate, one, or
\* two in ascending order of distance
CandidateLists(q) ==
    {<<>>, <<Candidate(q, 0, 3)>>}
    \cup {<<Candidate(q, 0, p[1]), Candidate(q, 1, p[2])>> :
            p \in {p \in Distances \X Distances : p[1] <= p[2]}}

\* the knnMatch results of n queries
RECURSIVE KnnResultsOfLen(_)
KnnResultsOfLen(n) ==
    IF n = 0 THEN {<<>>}
    ELSE {Append(r, m) : r \in KnnResultsOfLen(n - 1), m \in CandidateLists(n)}

KnnResults == UNION {KnnResultsOfLen(n) : n \in 0..MaxQueries}

InitKnn ==
    /\ LoopParked
    /\ knn = KNNMatcher_Init
    /\ stats = StatsSet_Init
    /\ TestParked

KnnMatch ==
    \E r \in KnnResults :
        /\ calls < MaxCalls
        /\ knn' = KNNMatcher_Match(knn, r, Lowe_ratio_thresh)
        /\ calls' = calls + 1
        /\ UNCHANGED <<cfgVars, loopVars, stats, acc, fed, ret>>

NextKnn == KnnMatch

SpecKnn == InitKnn /\ [][NextKnn]_vars

\* the query positions whose best candidate passes the ratio test at 0.7
Accepted(all) ==
    {q \in 1..Len(all) :
        Len(all[q]) >= 2 /\ 10 * all[q][1].distance < 7 * all[q][2].distance}

\* C8: after every Match call good_matches is exactly the best candidates, in
\* query order, of the queries that have a second candidate and whose best
\* distance is below 0.7 times the second distance; nothing of an earlier call
\* remains.
C8_RatioFilter ==
    LET all  == knn.all_matches
        good == knn.good_matches
    IN  /\ Len(good) = Cardinality(Accepted(all))
        /\ \A i \in 1..Len(good) : \E q \in Accepted(all) : good[i] = all[q][1]
        /\ \A i, j \in 1..Len(good) : i < j => good[i].queryIdx < good[j].queryIdx

\* C8 witness: a second call whose first query misses the test at the boundary
\* (7 against 0.7 * 10) and whose second query passes it
C8_Witness ==
    /\ calls = 2
    /\ knn.all_matches = <<<<Candidate(1, 0, 7), Candidate(1, 1, 10)>>,
                           <<Candidate(2, 0, 3), Candidate(2, 1, 10)>>>>
    /\ knn.good_matches = <<Candidate(2, 0, 3)>>

=============================================================================
